---- MODULE Spec2Model ----
(***************************************************************************)
(* CivicTrack backend (src/server.js): the issue store, the public and     *)
(* admin listings, the flag counter, the analytics tally and the           *)
(* two-step login.                                                         *)
(*                                                                         *)
(* Numbers are fixed point, Scale units to 1 (so 501 is 5.01).  Query      *)
(* parameters that the code hands to parseFloat are sequences of           *)
(* characters; status and category are whole strings.  A request's query   *)
(* or body is a record that has a field only when the request carries it.  *)
(***************************************************************************)
EXTENDS Integers, Sequences, FiniteSets, TLC

VARIABLES
  issues,     \* table issues in rowid order: [id, category, status, lat, lng, flags]
  res,        \* the last HTTP response of an issue endpoint: [op, code, body]
  flaggers,   \* history: per issue id, the users whose flag requests were applied
  users,      \* table users in rowid order: [id, username, role]
  nextId,     \* number of uuids drawn by login requests so far
  logins,     \* per login request: [pc, username, userId]
  loginRes    \* per login request: its HTTP response, once sent

vars == <<issues, res, flaggers, users, nextId, logins, loginRes>>
issueVars == <<issues, res, flaggers>>
loginVars == <<users, nextId, logins, loginRes>>

---------------------------------------------------------------------------
(* Bounds of the model *)
MaxIssues == 2
MaxFlagOps == 3
MaxLogins == 3

(* Program constants *)
FlagThreshold == 3
DefaultDistance == 5
MinUsernameLen == 3

Scale == 10 * 10
NaN == 0 - 999999

---------------------------------------------------------------------------
(* JavaScript values *)

DigitVal == ("0" :> 0) @@ ("1" :> 1) @@ ("2" :> 2) @@ ("3" :> 3) @@ ("4" :> 4)
         @@ ("5" :> 5) @@ ("6" :> 6) @@ ("7" :> 7) @@ ("8" :> 8) @@ ("9" :> 9)

IsDigit(c) == c \in DOMAIN DigitVal

\* String(n) of a one-digit number
DigitChar(n) == CHOOSE c \in DOMAIN DigitVal : DigitVal[c] = n

\* index of the first character at or after i that is not a digit
RECURSIVE DigitsEnd(_, _)
DigitsEnd(s, i) ==
  IF i <= Len(s) /\ IsDigit(s[i]) THEN DigitsEnd(s, i + 1) ELSE i

\* value of the digits s[i..j-1] read as an integer
RECURSIVE DigitsValue(_, _, _)
DigitsValue(s, i, j) ==
  IF j <= i THEN 0 ELSE DigitsValue(s, i, j - 1) * 10 + DigitVal[s[j - 1]]

\* value of the digits s[i..j-1] read as a fraction, in units of 1/Scale
FractionValue(s, i, j) ==
  LET d1 == IF i < j THEN DigitVal[s[i]] ELSE 0
      d2 == IF i + 1 < j THEN DigitVal[s[i + 1]] ELSE 0
  IN  d1 * 10 + d2

\* parseFloat: an optional sign, digits, an optional fraction; the longest
\* numeric prefix counts and the rest is ignored; NaN when there is none.
parseFloat(s) ==
  LET neg   == Len(s) >= 1 /\ s[1] = "-"
      i0    == IF neg THEN 2 ELSE 1
      i1    == DigitsEnd(s, i0)
      dot   == i1 <= Len(s) /\ s[i1] = "."
      f0    == i1 + 1
      f1    == IF dot THEN DigitsEnd(s, f0) ELSE f0
      noNum == (i1 = i0) /\ (~dot \/ f1 = f0)
      mag   == DigitsValue(s, i0, i1) * Scale + (IF dot THEN FractionValue(s, f0, f1) ELSE 0)
  IN  IF noNum THEN NaN ELSE IF neg THEN 0 - mag ELSE mag

\* a <= b on numbers: false as soon as one side is NaN
NumLE(a, b) == a # NaN /\ b # NaN /\ a <= b

Has(r, k) == k \in DOMAIN r
\* truthiness of a string-valued request field (absent or empty is falsy)
TruthyStr(r, k) == Has(r, k) /\ r[k] # ""
\* truthiness of a character-sequence request field
TruthySeq(r, k) == Has(r, k) /\ r[k] # <<>>
\* truthiness of a numeric body field (absent or 0 is falsy)
TruthyNum(r, k) == Has(r, k) /\ r[k] # 0 /\ r[k] # NaN

RECURSIVE ISqrtFrom(_, _, _)
ISqrtFrom(n, lo, hi) ==
  IF lo >= hi THEN lo
  ELSE LET mid == (lo + hi + 1) \div 2
       IN  IF mid * mid <= n THEN ISqrtFrom(n, mid, hi) ELSE ISqrtFrom(n, lo, mid - 1)

\* a power of two whose square exceeds n
RECURSIVE SqrtBound(_, _)
SqrtBound(n, h) == IF h * h > n THEN h ELSE SqrtBound(n, 2 * h)

\* floor of the square root
ISqrt(n) == ISqrtFrom(n, 0, SqrtBound(n, 1))

Abs(x) == IF x < 0 THEN 0 - x ELSE x

\* getDistance: the haversine distance for coordinates given in kilometres
\* of arc around (0, 0).  Along one meridian (dLng = 0) the formula gives
\* exactly |dLat|; for the short separations modelled here it is the
\* hypotenuse of dLat and dLng.  NaN propagates.
getDistance(lat1, lng1, lat2, lng2) ==
  IF lat1 = NaN \/ lng1 = NaN \/ lat2 = NaN \/ lng2 = NaN THEN NaN
  ELSE LET dLat == lat2 - lat1
           dLng == lng2 - lng1
       IN  IF dLng = 0 THEN Abs(dLat)
           ELSE IF dLat = 0 THEN Abs(dLng)
           ELSE ISqrt(dLat * dLat + dLng * dLng)

---------------------------------------------------------------------------
(* Schema and enumerations *)

validCategories ==
  <<"Roads", "Lighting", "Water Supply", "Cleanliness", "Public Safety", "Obstructions">>

validStatuses == <<"Reported", "In Progress", "Resolved">>

includes(list, v) == \E i \in DOMAIN list : list[i] = v

Response(op, code, body) == [op |-> op, code |-> code, body |-> body]

---------------------------------------------------------------------------
(* Requests the model draws from *)

Opt(k, S) == {<<>>} \cup {(k :> v) : v \in S}

\* POST /api/issues bodies: two well-formed reports on the meridian 4.00,
\* at 5.00 and 5.01 from the equator, and one defect each for the
\* required-field check (lat 0, no userId) and the category check
IssueBodies ==
  { [category |-> "Roads",    lat |-> 500, lng |-> 400, userId |-> "u1"],
    [category |-> "Lighting", lat |-> 501, lng |-> 400, userId |-> "u2"],
    [category |-> "Roads",    lat |-> 0,   lng |-> 400, userId |-> "u1"],
    [category |-> "Roads",    lat |-> 500, lng |-> 400],
    [category |-> "Potholes", lat |-> 500, lng |-> 400, userId |-> "u1"] }

StatusParams == {"", "all", "Reported", "Resolved", "InvalidStatus"}
CategoryParams == {"all", "Roads", "InvalidCategory"}

\* lat, lng and distance of GET /api/issues
GeoParams ==
  { <<>>,
    [lng |-> <<"4">>, distance |-> <<"3">>],
    [lat |-> <<"0">>, lng |-> <<"4">>],
    [lat |-> <<"0">>, lng |-> <<"4">>, distance |-> <<"5", ".", "0", "1">>],
    [lat |-> <<"0">>, lng |-> <<"4">>, distance |-> <<>>],
    [lat |-> <<"0">>, lng |-> <<"4">>, distance |-> <<"k", "m">>],
    [lat |-> <<"-", "1">>, lng |-> <<"1">>, distance |-> <<"7">>],
    [lat |-> <<>>,    lng |-> <<"4">>, distance |-> <<"3">>],
    [lat |-> <<"x">>, lng |-> <<"4">>] }

Queries ==
  { s @@ c @@ g : s \in Opt("status", StatusParams),
                  c \in Opt("category", CategoryParams),
                  g \in GeoParams }

Users == {"u1", "u2"}

---------------------------------------------------------------------------
(* Issue endpoints *)

\* uuidv4() for a new issue: an id no stored issue has
NewIssueId(tbl) == Len(tbl) + 1

\* INSERT INTO issues (...) VALUES (..., 'Reported', ...): flags takes its
\* column default 0.  The free-text columns title, description and
\* createdAt, which no handler reads, are left out of the row.
InsertIssue(tbl, id, body) ==
  Append(tbl, [id |-> id, category |-> body.category, status |-> "Reported",
               lat |-> body.lat, lng |-> body.lng, userId |-> body.userId,
               flags |-> 0])

\* POST /api/issues: [tbl, res]
CreateIssue(tbl, body) ==
  IF ~(TruthyStr(body, "category") /\ TruthyNum(body, "lat")
       /\ TruthyNum(body, "lng") /\ TruthyStr(body, "userId"))
  THEN [tbl |-> tbl, res |-> Response("postIssue", 400, "All fields are required")]
  ELSE IF ~includes(validCategories, body.category)
  THEN [tbl |-> tbl, res |-> Response("postIssue", 400, "Invalid category")]
  ELSE LET id == NewIssueId(tbl)
       IN  [tbl |-> InsertIssue(tbl, id, body), res |-> Response("postIssue", 200, id)]

\* mutant: the increment is applied twice
FlagUpdateTwice(tbl, id) ==
  [i \in DOMAIN tbl |->
     IF tbl[i].id = id THEN [tbl[i] EXCEPT !.flags = @ + 2] ELSE tbl[i]]

\* UPDATE issues SET flags = flags + 1 WHERE id = ?
FlagUpdate(tbl, id) ==
  [i \in DOMAIN tbl |->
     IF tbl[i].id = id THEN [tbl[i] EXCEPT !.flags = @ + 1] ELSE tbl[i]]

\* mutant: the spam gate admits the threshold itself
MatchesUpTo(row, params) ==
  /\ row.flags <= FlagThreshold
  /\ \A i \in DOMAIN params : row[params[i][1]] = params[i][2]

\* the WHERE clause GET /api/issues builds: the spam gate plus one equality
\* per requested column, as <<column, value>> pairs
Matches(row, params) ==
  /\ row.flags < FlagThreshold
  /\ \A i \in DOMAIN params : row[params[i][1]] = params[i][2]

\* mutant: the bound parameters are not applied
SelectWhereGateOnly(tbl, params) ==
  LET Keep(row) == Matches(row, <<>>) IN SelectSeq(tbl, Keep)

\* db.all(query, params): a scan of the table in rowid order
SelectWhere(tbl, params) ==
  LET Keep(row) == Matches(row, params) IN SelectSeq(tbl, Keep)

\* mutant: the radius itself is outside
InRadiusStrict(q, issue) ==
  IF ~TruthySeq(q, "lat") \/ ~TruthySeq(q, "lng") THEN TRUE
  ELSE LET dist == getDistance(parseFloat(q.lat), parseFloat(q.lng), issue.lat, issue.lng)
           d    == IF TruthySeq(q, "distance") THEN q.distance
                   ELSE <<DigitChar(DefaultDistance)>>
       IN  NumLE(dist, parseFloat(d)) /\ dist # parseFloat(d)

\* the radius predicate of rows.filter
InRadius(q, issue) ==
  IF ~TruthySeq(q, "lat") \/ ~TruthySeq(q, "lng") THEN TRUE
  ELSE LET dist == getDistance(parseFloat(q.lat), parseFloat(q.lng), issue.lat, issue.lng)
           d    == IF TruthySeq(q, "distance") THEN q.distance
                   ELSE <<DigitChar(DefaultDistance)>>
       IN  NumLE(dist, parseFloat(d))

\* mutant: the kept rows come out newest first
RECURSIVE Reverse(_)
Reverse(seq) == IF seq = <<>> THEN <<>> ELSE Append(Reverse(Tail(seq)), Head(seq))
FilterRowsReversed(rows, q) ==
  LET Keep(issue) == InRadius(q, issue) IN Reverse(SelectSeq(rows, Keep))

\* rows.filter(...)
FilterRows(rows, q) ==
  LET Keep(issue) == InRadius(q, issue) IN SelectSeq(rows, Keep)

\* mutant: the category is not checked against validCategories
ListIssuesAnyCategory(tbl, q) ==
  LET useStatus   == TruthyStr(q, "status") /\ q.status # "all"
      useCategory == TruthyStr(q, "category") /\ q.category # "all"
  IN  IF useStatus /\ ~includes(validStatuses, q.status)
      THEN Response("getIssues", 400, "Invalid status")
      ELSE LET params == (IF useStatus THEN << <<"status", q.status>> >> ELSE <<>>)
                         \o (IF useCategory THEN << <<"category", q.category>> >> ELSE <<>>)
           IN  Response("getIssues", 200, FilterRows(SelectWhere(tbl, params), q))

\* GET /api/issues
ListIssues(tbl, q) ==
  LET useStatus   == TruthyStr(q, "status") /\ q.status # "all"
      useCategory == TruthyStr(q, "category") /\ q.category # "all"
  IN  IF useStatus /\ ~includes(validStatuses, q.status)
      THEN Response("getIssues", 400, "Invalid status")
      ELSE IF useCategory /\ ~includes(validCategories, q.category)
      THEN Response("getIssues", 400, "Invalid category")
      ELSE LET params == (IF useStatus THEN << <<"status", q.status>> >> ELSE <<>>)
                         \o (IF useCategory THEN << <<"category", q.category>> >> ELSE <<>>)
           IN  Response("getIssues", 200, FilterRows(SelectWhere(tbl, params), q))

\* mutant: only issues above the threshold are flagged
SelectFlaggedAbove(tbl) ==
  LET Keep(row) == row.flags > FlagThreshold IN SelectSeq(tbl, Keep)

\* SELECT * FROM issues WHERE flags >= 3
SelectFlagged(tbl) ==
  LET Keep(row) == row.flags >= FlagThreshold IN SelectSeq(tbl, Keep)

\* the order of TEXT values of column category (the order of validCategories
\* stands in for the collation; only listed categories are ever stored)
CatIndex(c) == CHOOSE i \in DOMAIN validCategories : validCategories[i] = c
LessCat(x, y) == CatIndex(x) < CatIndex(y)

\* SELECT category, COUNT(*) as count FROM issues GROUP BY category:
\* one row per category that occurs, in category order
RECURSIVE GroupRows(_, _)
GroupRows(tbl, cats) ==
  IF cats = {} THEN <<>>
  ELSE LET c == CHOOSE x \in cats : \A y \in cats : LessCat(x, y) \/ x = y
           n == Cardinality({i \in DOMAIN tbl : tbl[i].category = c})
       IN  <<[category |-> c, count |-> n]>> \o GroupRows(tbl, cats \ {c})

\* mutant: the tally is taken over the public issues only
CategoryCountsPublic(tbl) ==
  LET Keep(row) == row.flags < FlagThreshold
      pub == SelectSeq(tbl, Keep)
  IN  GroupRows(pub, {pub[i].category : i \in DOMAIN pub})

CategoryCounts(tbl) == GroupRows(tbl, {tbl[i].category : i \in DOMAIN tbl})

RECURSIVE SumSeq(_, _)
SumSeq(tbl, n) == IF n = 0 THEN 0 ELSE SumSeq(tbl, n - 1) + tbl[n].flags

\* flag requests applied so far
SumFlags(tbl) == SumSeq(tbl, Len(tbl))

---------------------------------------------------------------------------
(* Actions of the issue endpoints *)

PostIssue(body) ==
  /\ Len(issues) < MaxIssues
  /\ LET out == CreateIssue(issues, body)
     IN  /\ issues' = out.tbl
         /\ res' = out.res
  /\ UNCHANGED <<flaggers, loginVars>>

\* POST /api/issues/:id/flag: the handler reads nothing but the id
FlagIssue(id) ==
  /\ SumFlags(issues) < MaxFlagOps
  /\ issues' = FlagUpdate(issues, id)
  /\ res' = Response("postFlag", 200, TRUE)

PostFlag(id) ==
  /\ FlagIssue(id)
  /\ UNCHANGED <<flaggers, loginVars>>

\* the same request, with the user who sent it written to the history
PostFlagBy(u, id) ==
  /\ FlagIssue(id)
  /\ flaggers' = [flaggers EXCEPT ![id] =
                    IF \E i \in DOMAIN issues : issues[i].id = id THEN @ \cup {u} ELSE @]
  /\ UNCHANGED loginVars

GetIssues(q) ==
  /\ res' = ListIssues(issues, q)
  /\ UNCHANGED <<issues, flaggers, loginVars>>

GetAdminIssues ==
  /\ res' = Response("getAdminIssues", 200, SelectFlagged(issues))
  /\ UNCHANGED <<issues, flaggers, loginVars>>

GetAnalytics ==
  /\ res' = Response("getAnalytics", 200, CategoryCounts(issues))
  /\ UNCHANGED <<issues, flaggers, loginVars>>

FlagIds == 1 .. (MaxIssues + 1)

---------------------------------------------------------------------------
(* Login *)

Admin == <<"a", "d", "m", "i", "n">>
Bob == <<"b", "o", "b">>

\* usernames of POST /api/login bodies: two that pass the length check,
\* one too short and an empty one
Usernames == {Admin, Bob, <<"a", "l">>, <<>>}

LoginIds == 1 .. MaxLogins

\* SELECT * FROM users WHERE username = ?: the rows found
FindUser(tbl, username) ==
  LET Keep(row) == row.username = username IN SelectSeq(tbl, Keep)

\* mutant: username is not UNIQUE
InsertUserAnyName(tbl, row) ==
  IF \E i \in DOMAIN tbl : tbl[i].id = row.id
  THEN [err |-> TRUE, tbl |-> tbl]
  ELSE [err |-> FALSE, tbl |-> Append(tbl, row)]

\* INSERT INTO users (id, username, role): id is the PRIMARY KEY and
\* username is UNIQUE, so a row that repeats either is refused
InsertUser(tbl, row) ==
  IF \E i \in DOMAIN tbl : tbl[i].id = row.id \/ tbl[i].username = row.username
  THEN [err |-> TRUE, tbl |-> tbl]
  ELSE [err |-> FALSE, tbl |-> Append(tbl, row)]

\* the handler's synchronous part: the username check, then db.get is queued
LoginRequest(r, username) ==
  /\ logins[r].pc = "idle"
  /\ IF username = <<>> \/ Len(username) < MinUsernameLen
     THEN /\ logins' = [logins EXCEPT ![r] = [pc |-> "done", username |-> username, userId |-> 0]]
          /\ loginRes' = [loginRes EXCEPT ![r] = [code |-> 400, id |-> 0, username |-> username, role |-> ""]]
     ELSE /\ logins' = [logins EXCEPT ![r] = [pc |-> "get", username |-> username, userId |-> 0]]
          /\ UNCHANGED loginRes
  /\ UNCHANGED <<users, nextId, issueVars>>

\* db.get runs and its callback answers with the user found, or draws a
\* uuid and queues the INSERT
LoginGet(r) ==
  /\ logins[r].pc = "get"
  /\ LET found == FindUser(users, logins[r].username)
     IN  IF found # <<>>
         THEN /\ loginRes' = [loginRes EXCEPT ![r] =
                   [code |-> 200, id |-> found[1].id, username |-> found[1].username,
                    role |-> found[1].role]]
              /\ logins' = [logins EXCEPT ![r].pc = "done"]
              /\ UNCHANGED nextId
         ELSE /\ nextId' = nextId + 1
              /\ logins' = [logins EXCEPT ![r].pc = "run", ![r].userId = nextId + 1]
              /\ UNCHANGED loginRes
  /\ UNCHANGED <<users, issueVars>>

\* db.run runs the INSERT and its callback answers
LoginRun(r) ==
  /\ logins[r].pc = "run"
  /\ LET out == InsertUser(users, [id |-> logins[r].userId,
                                   username |-> logins[r].username, role |-> "user"])
     IN  /\ users' = out.tbl
         /\ loginRes' = [loginRes EXCEPT ![r] =
              IF out.err
              THEN [code |-> 500, id |-> 0, username |-> logins[r].username, role |-> ""]
              ELSE [code |-> 200, id |-> logins[r].userId,
                    username |-> logins[r].username, role |-> "user"]]
  /\ logins' = [logins EXCEPT ![r].pc = "done"]
  /\ UNCHANGED <<nextId, issueVars>>

---------------------------------------------------------------------------
(* Specifications *)

\* the state once db.serialize has created the tables and the admin user
Init ==
  /\ issues = <<>>
  /\ res = Response("none", 0, <<>>)
  /\ flaggers = [id \in FlagIds |-> {}]
  /\ users = <<[id |-> 0, username |-> Admin, role |-> "admin"]>>
  /\ nextId = 0
  /\ logins = [r \in LoginIds |-> [pc |-> "idle", username |-> <<>>, userId |-> 0]]
  /\ loginRes = [r \in LoginIds |-> [code |-> 0, id |-> 0, username |-> <<>>, role |-> ""]]

\* the issue endpoints
Next ==
  \/ \E body \in IssueBodies : PostIssue(body)
  \/ \E id \in FlagIds : PostFlag(id)
  \/ \E q \in Queries : GetIssues(q)
  \/ GetAdminIssues
  \/ GetAnalytics

Spec == Init /\ [][Next]_vars

\* creation, flagging by named users and the public listing
NextFlag ==
  \/ \E body \in IssueBodies : PostIssue(body)
  \/ \E u \in Users, id \in FlagIds : PostFlagBy(u, id)
  \/ \E q \in Queries : GetIssues(q)

SpecFlag == Init /\ [][NextFlag]_vars

\* concurrent login requests
NextLogin ==
  \/ \E r \in LoginIds, username \in Usernames : LoginRequest(r, username)
  \/ \E r \in LoginIds : LoginGet(r)
  \/ \E r \in LoginIds : LoginRun(r)

SpecLogin == Init /\ [][NextLogin]_vars

---------------------------------------------------------------------------
(* Vocabulary of the properties *)

Rows(seq) == {seq[i] : i \in DOMAIN seq}
Visible(row) == row.flags < FlagThreshold
Without(q, k) == [f \in DOMAIN q \ {k} |-> q[f]]

\* the request restricts column k to one of the enumerated values
Restricts(q, k) == TruthyStr(q, k) /\ q[k] # "all"
\* the request names a value of column k that is not enumerated
Rejected(q, k, list) == Restricts(q, k) /\ ~includes(list, q[k])
WellFormed(q) ==
  ~Rejected(q, "status", validStatuses) /\ ~Rejected(q, "category", validCategories)

\* a is b with some elements left out
RECURSIVE IsSubseq(_, _)
IsSubseq(a, b) ==
  IF a = <<>> THEN TRUE
  ELSE IF b = <<>> THEN FALSE
  ELSE IF Head(a) = Head(b) THEN IsSubseq(Tail(a), Tail(b))
  ELSE IsSubseq(a, Tail(b))

\* the response on hand is the public listing of the current table for q;
\* a listing leaves the table alone and every other request replaces the
\* response, so each request of Queries is the q of some reachable state
Listed(q) == res.op = "getIssues" /\ res = ListIssues(issues, q)

---------------------------------------------------------------------------
\* C1: whatever issues have been created and flagged, and whatever the
\* filter, the public listing holds no issue with 3 or more flags.  (The
\* response on hand ranges over the answers to every request of Queries.)
C1_NoFlaggedListed ==
  (res.op = "getIssues" /\ res.code = 200)
    => \A row \in Rows(res.body) : row.flags < FlagThreshold

\* a listing was answered with some issue shown while another is hidden
C1_Witness ==
  /\ res.op = "getIssues" /\ res.code = 200 /\ res.body # <<>>
  /\ \E row \in Rows(issues) : row.flags >= FlagThreshold

---------------------------------------------------------------------------
\* C2: the public listing with an empty filter and the admin flagged
\* listing partition the stored issues: each issue is in exactly one of
\* them, in the first when it has fewer than 3 flags and in the second
\* otherwise, and neither holds anything else.
C2_Partition ==
  LET vis == ListIssues(issues, <<>>)
      flg == SelectFlagged(issues)
  IN  /\ vis.code = 200
      /\ IsSubseq(vis.body, issues) /\ IsSubseq(flg, issues)
      /\ \A row \in Rows(issues) :
           /\ (row \in Rows(vis.body)) # (row \in Rows(flg))
           /\ (row \in Rows(vis.body)) <=> (row.flags < FlagThreshold)
           /\ (row \in Rows(flg)) <=> (row.flags >= FlagThreshold)

\* the admin listing was answered with a flagged issue while another issue
\* is still public
C2_Witness ==
  /\ res.op = "getAdminIssues" /\ res.body # <<>>
  /\ \E row \in Rows(issues) : row.flags < FlagThreshold

---------------------------------------------------------------------------
\* C3 as claimed: once issues are stored, every listing request whose
\* status is supplied but not one of the three statuses, or whose category
\* is supplied but not one of the six categories, is answered 400.
C3_AsClaimed ==
  issues # <<>> =>
    \A q \in Queries :
      (  (Has(q, "status") /\ ~includes(validStatuses, q.status))
      \/ (Has(q, "category") /\ ~includes(validCategories, q.category)) )
      => ListIssues(issues, q).code = 400

\* C3 amended: a listing request is answered 400, with an error text and no
\* issue list, exactly when its status is non-empty, not "all" and not one
\* of the three statuses, or its category is non-empty, not "all" and not
\* one of the six categories; the other fields and the table do not matter.
C3_InvalidFilterRejected ==
  \A q \in Queries :
    Listed(q) =>
      IF Rejected(q, "status", validStatuses) \/ Rejected(q, "category", validCategories)
      THEN res.code = 400 /\ res.body \in {"Invalid status", "Invalid category"}
      ELSE res.code = 200

\* a listing over a non-empty table was refused
C3_Witness ==
  /\ res.op = "getIssues" /\ res.code = 400
  /\ \E row \in Rows(issues) : Visible(row)

---------------------------------------------------------------------------
(* The filter request as the specification reads it *)

\* the rows that pass the spam gate and the status and category predicates
PassOthers(q) ==
  LET Keep(row) ==
        /\ row.flags < FlagThreshold
        /\ Restricts(q, "status") => row.status = q.status
        /\ Restricts(q, "category") => row.category = q.category
  IN  SelectSeq(issues, Keep)

\* an origin coordinate is supplied: the parameter is there and not empty
Supplied(q, k) == Has(q, k) /\ q[k] # <<>>
\* both origin coordinates are supplied and are numbers
HasOrigin(q) ==
  /\ Supplied(q, "lat") /\ parseFloat(q.lat) # NaN
  /\ Supplied(q, "lng") /\ parseFloat(q.lng) # NaN
\* the radius: the supplied one, or 5 when none is supplied
RadiusOf(q) ==
  IF Supplied(q, "distance") THEN parseFloat(q.distance) ELSE DefaultDistance * Scale
DistanceTo(q, row) == getDistance(parseFloat(q.lat), parseFloat(q.lng), row.lat, row.lng)

---------------------------------------------------------------------------
\* C5: when a valid status (category) other than "all" is requested, every
\* listed issue has that status (category) and every public issue with that
\* value that passes the other predicates is listed; when the field is
\* absent or "all" the answer is that of the request without the field.
C5_EqualityFilters ==
  \A q \in Queries :
    (Listed(q) /\ WellFormed(q)) =>
      /\ res.code = 200
      /\ \A k \in {"status", "category"} :
           /\ Restricts(q, k) =>
                /\ \A row \in Rows(res.body) : row[k] = q[k]
                /\ \A row \in Rows(ListIssues(issues, Without(q, k)).body) :
                     row[k] = q[k] => row \in Rows(res.body)
           /\ (Has(q, k) /\ q[k] = "all") => res = ListIssues(issues, Without(q, k))
      /\ \A row \in Rows(PassOthers(q)) : InRadius(q, row) => row \in Rows(res.body)

\* a listing by category was answered that shows an issue of the category
\* and leaves out a public issue of another category
C5_Witness ==
  \E q \in Queries :
    /\ Listed(q) /\ res.code = 200 /\ Restricts(q, "category") /\ res.body # <<>>
    /\ \E row \in Rows(issues) :
         Visible(row) /\ row.category # q.category /\ row \notin Rows(res.body)

---------------------------------------------------------------------------
\* C6: an issue is missing from the public listing only when flags of more
\* than one distinct user have been applied to it; flags that all come from
\* one user never hide an issue.
C6_HiddenOnlyByMultipleUsers ==
  \A row \in Rows(issues) :
    row \notin Rows(ListIssues(issues, <<>>).body) => Cardinality(flaggers[row.id]) > 1

---------------------------------------------------------------------------
\* The steps C7 allows: a record enters the table once, with status Reported and no flags;
\* afterwards a step changes a stored record only by raising its flag
\* count by exactly 1 (a flag request); the code has no endpoint for the
\* status transition, so no status changes; the two listings and the
\* category count change no record; no step changes an id, a category or a
\* coordinate, lowers a flag count or removes a record.
C7_Step ==
  /\ Len(issues') >= Len(issues) /\ Len(issues') <= Len(issues) + 1
  /\ \A i \in DOMAIN issues :
       /\ issues'[i].id = issues[i].id
       /\ issues'[i].category = issues[i].category
       /\ issues'[i].lat = issues[i].lat
       /\ issues'[i].lng = issues[i].lng
       /\ issues'[i].flags \in {issues[i].flags, issues[i].flags + 1}
       /\ issues'[i].flags # issues[i].flags => res'.op = "postFlag"
       /\ issues'[i].status = issues[i].status
  /\ Len(issues') = Len(issues) + 1 =>
       LET new == issues'[Len(issues')]
       IN  /\ res'.op = "postIssue" /\ res'.code = 200 /\ res'.body = new.id
           /\ new.status = "Reported" /\ new.flags = 0
           /\ \A i \in DOMAIN issues : issues[i].id # new.id
  /\ res'.op \in {"getIssues", "getAdminIssues", "getAnalytics"} => issues' = issues

\* C7: every step of the issue endpoints changes the stored records only
\* as C7_Step allows.
C7_RecordsChangeOnlyByFlag == [][C7_Step]_vars

\* an issue has been flagged and a listing over it has been answered since
C7_Witness ==
  /\ res.op \in {"getIssues", "getAdminIssues", "getAnalytics"}
  /\ \E row \in Rows(issues) : row.flags > 0 /\ row.status = "Reported"
  /\ Len(issues) > 1

---------------------------------------------------------------------------
\* C8: the category count has one row per stored category, whose count is
\* the number of stored issues of that category, flagged or not; a category
\* without issues has no row; the counts add up to the number of issues.
C8_CountsCoverAll ==
  LET rows == CategoryCounts(issues)
      CountOf(c) == Cardinality({i \in DOMAIN issues : issues[i].category = c})
      Total[n \in 0 .. Len(rows)] == IF n = 0 THEN 0 ELSE Total[n - 1] + rows[n].count
  IN  /\ Total[Len(rows)] = Len(issues)
      /\ \A i, j \in DOMAIN rows : rows[i].category = rows[j].category => i = j
      /\ \A i \in DOMAIN rows : rows[i].count = CountOf(rows[i].category)
      /\ \A c \in Rows(validCategories) :
           CountOf(c) > 0 => \E i \in DOMAIN rows : rows[i].category = c
      /\ res.op = "getAnalytics" => res.body = rows

\* the category count was answered for two categories while one issue is
\* flagged out of the public listing
C8_Witness ==
  /\ res.op = "getAnalytics" /\ Len(res.body) > 1
  /\ \E row \in Rows(issues) : row.flags >= FlagThreshold

---------------------------------------------------------------------------
\* C9: for every filter the public listing is the table with some rows left
\* out: the listed issues come in the table's order, each once, and each
\* is a stored issue.
C9_ListingKeepsOrder ==
  (res.op = "getIssues" /\ res.code = 200) =>
    /\ IsSubseq(res.body, issues)
    /\ \A i, j \in DOMAIN res.body : res.body[i] = res.body[j] => i = j

\* a listing around an origin was answered with two issues
C9_Witness ==
  \E q \in Queries :
    /\ Listed(q) /\ res.code = 200 /\ HasOrigin(q)
    /\ Len(res.body) > 1 /\ res.body[1].id # res.body[2].id

---------------------------------------------------------------------------
\* C10: however the lookups and inserts of concurrent logins interleave,
\* no two user records share a username; all 200 responses for a username
\* carry one id and one role; a request whose insert finds the username
\* taken is answered with an error and has added no record.
C10_LoginRace ==
  /\ \A i, j \in DOMAIN users : users[i].username = users[j].username => i = j
  /\ \A r1, r2 \in LoginIds :
       (loginRes[r1].code = 200 /\ loginRes[r2].code = 200
        /\ loginRes[r1].username = loginRes[r2].username)
       => (loginRes[r1].id = loginRes[r2].id /\ loginRes[r1].role = loginRes[r2].role)
  /\ \A r \in LoginIds :
       (logins[r].pc = "done" /\ logins[r].userId # 0) =>
         \/ /\ loginRes[r].code = 200
            /\ \E i \in DOMAIN users :
                 users[i].id = logins[r].userId /\ users[i].username = logins[r].username
         \/ /\ loginRes[r].code = 500
            /\ \A i \in DOMAIN users : users[i].id # logins[r].userId
            /\ \E i \in DOMAIN users : users[i].username = logins[r].username
  /\ \A r \in LoginIds : loginRes[r].code = 200 =>
       \E i \in DOMAIN users :
         users[i].id = loginRes[r].id /\ users[i].username = loginRes[r].username

\* two logins raced for one new username: one created the user, the other
\* was refused by its insert, and a third found the user
C10_Witness ==
  \E r1, r2 \in LoginIds :
    /\ r1 # r2 /\ logins[r1].username = logins[r2].username
    /\ logins[r1].userId # 0 /\ logins[r2].userId # 0
    /\ loginRes[r1].code = 200 /\ loginRes[r2].code = 500

====
